---- MODULE Spec2Model ----
(***************************************************************************)
(* Model of src/motion_detector.py: the motion-triggered recording loop of *)
(* MotionDetector (__loop and the methods it calls) and the SIGINT handler. *)
(*                                                                         *)
(* Time is counted in whole seconds.  Difference scores and the threshold  *)
(* are counted in tenths, so that the default threshold 7.2 is 72.         *)
(* One step of the model is one iteration of the `while True` loop (Loop)  *)
(* or one delivery of SIGINT to command_line_handler.                      *)
(*                                                                         *)
(* Spec is the loop with the signal handler.  SpecLive is the loop under   *)
(* fairness, with a scene whose motion ceases.  SpecStats is the sequence  *)
(* of store_diff_history calls, which touch the statistics only.           *)
(***************************************************************************)
EXTENDS Integers, Sequences, FiniteSets, TLC

\* ---------------------------------------------------------------- bounds
\* The clock runs from 0 to MaxTime seconds.
MaxTime == 7
\* The longest time that passes between the first and the last clock read
\* of one iteration (the reads are microseconds apart: at most this many
\* second boundaries fall between them).
MaxDrift == 1
\* previous_frame is kept as its age in loop iterations, saturating here.
MaxAge == 2
\* self.__diff_history_count, the capacity of the difference history (1000
\* in the source, line 102), scaled down.
diff_history_count == 3
\* The number of calls of store_diff_history that are followed.
MaxStored == 210

\* ------------------------------------------------------ program constants
\* Python's None, for the two timestamps and for previous_frame.
None == -1
\* --min-pixel-diff, default 7.2 (in tenths).
min_pixel_diff == 72
\* MotionDetector.__MAX_TIME_SINCE_LAST_MOTION_DETECTION_SECONDS = 5.0
MAX_TIME_SINCE_LAST_MOTION_DETECTION_SECONDS == 5
\* self.__display_interval = 100
display_interval == 100

\* The values of --max-recording-length-seconds tried: 0 (the default, no
\* cap) and a cap that can be reached before and after the idle timeout.
CapValues == {0, 5}
\* Scores below, at and above the threshold.
Scores == {0, min_pixel_diff, min_pixel_diff + 8}

\* The operation of an iteration that raises an exception ("none": no
\* operation raises).  "send" is an exception __send_email does not catch
\* (OSError: connection refused, unreachable host, unreadable attachment);
\* the ones it catches are the SendOutcomes below.
Raises == {"none", "capture", "diff", "startWriting", "captureSnapshot",
           "stopWriting", "send", "deleteLocal"}
\* "ok": the mail was sent; "failed": smtplib.SMTPException or
\* socket.timeout, caught and logged at line 305.
SendOutcomes == {"ok", "failed"}

VARIABLES
    pc,                              \* "running" | "exited": the process
    now,                             \* the wall clock, in seconds
    args,                            \* the command line arguments
    encoding,                        \* self.__encoding
    start_time_of_last_recording,    \* self.__start_time_of_last_recording
    time_of_last_motion_detection,   \* self.__time_of_last_motion_detection
    previous_frame,                  \* the loop's previous_frame (None or its age)
    output,                          \* self.__encoder.output (the Recorder Sink)
    last,                            \* what the last step did (history variable)
    motion,                          \* the scene can still produce scores above the threshold
    diff_history,                    \* self.__diff_history
    tick,                            \* self.__tick
    diff_min,                        \* self.__diff_min
    diff_max,                        \* self.__diff_max
    diff_average,                    \* self.__diff_average
    stored,                          \* calls of store_diff_history so far (history variable)
    reports                          \* the calls that logged the statistics (history variable)

\* The variables of the recording loop and of the difference statistics.
loop_vars == <<pc, now, args, encoding, start_time_of_last_recording,
               time_of_last_motion_detection, previous_frame, output, last,
               motion>>

stats_vars == <<diff_history, tick, diff_min, diff_max, diff_average,
                stored, reports>>

vars == <<pc, now, args, encoding, start_time_of_last_recording,
          time_of_last_motion_detection, previous_frame, output, last,
          motion, diff_history, tick, diff_min, diff_max, diff_average,
          stored, reports>>

\* ------------------------------------------------------------- file paths
\* __get_recording_file_path: recording_dir + start time + ".h264"
get_recording_file_path(m) == <<"h264", m.start_time_of_last_recording>>

\* __get_snapshot_file_path: recording_dir + start time + ".jpeg"
get_snapshot_file_path(m) == <<"jpeg", m.start_time_of_last_recording>>

\* --------------------------------------------------- the machine's record
\* The fields of self an iteration reads and writes, with the calls it has
\* issued so far (calls), whether an exception is propagating (exc), the
\* branch of the loop taken (branch) and the outcome of the send (sent).
Machine ==
    [encoding |-> encoding,
     start_time_of_last_recording |-> start_time_of_last_recording,
     time_of_last_motion_detection |-> time_of_last_motion_detection,
     output |-> output,
     calls |-> <<>>,
     exc |-> FALSE,
     branch |-> "none",
     sent |-> "none"]

\* A call to an external collaborator or to the delivery adapter.
Call(m, c) == [m EXCEPT !.calls = Append(@, c)]

\* An exception raised: the rest of the iteration is skipped.
Raise(m) == [m EXCEPT !.exc = TRUE]

\* ------------------------------------------------------------- predicates
\* Mutant: the cap compared with > instead of >=.
is_max_recording_length_exceeded_strict(m, t) ==
    /\ args.max_recording_length_seconds > 0
    /\ m.start_time_of_last_recording # None
    /\ t - m.start_time_of_last_recording > args.max_recording_length_seconds

\* __is_max_recording_length_exceeded, reading the clock at t
is_max_recording_length_exceeded(m, t) ==
    /\ args.max_recording_length_seconds > 0
    /\ m.start_time_of_last_recording # None
    /\ t - m.start_time_of_last_recording >= args.max_recording_length_seconds

\* Mutant: the idle gap compared with >= instead of >.
is_max_time_since_last_motion_detection_reached(m, t) ==
    /\ m.encoding
    /\ m.time_of_last_motion_detection # None
    /\ t - m.time_of_last_motion_detection >= MAX_TIME_SINCE_LAST_MOTION_DETECTION_SECONDS

\* __is_max_time_since_last_motion_detection_exceeded, reading the clock at t
is_max_time_since_last_motion_detection_exceeded(m, t) ==
    /\ m.encoding
    /\ m.time_of_last_motion_detection # None
    /\ t - m.time_of_last_motion_detection > MAX_TIME_SINCE_LAST_MOTION_DETECTION_SECONDS

\* ------------------------------------------------------------ start, stop
\* Mutant: __start_recording without `self.__encoding = True`.
start_recording_without_flag(m, in) ==
    LET p  == get_recording_file_path(m)
        m1 == Call([m EXCEPT !.output.fileoutput = p], <<"startWriting", p>>)
    IN  IF in.raises = "startWriting"
        THEN Raise(m1)
        ELSE [m1 EXCEPT !.output.recording = TRUE]

\* __start_recording: sets the file of the output, starts it, sets the flag.
start_recording(m, in) ==
    LET p  == get_recording_file_path(m)
        m1 == Call([m EXCEPT !.output.fileoutput = p], <<"startWriting", p>>)
    IN  IF in.raises = "startWriting"
        THEN Raise(m1)
        ELSE [m1 EXCEPT !.output.recording = TRUE, !.encoding = TRUE]

\* __write_snapshot_to_file and __create_snapshot
write_snapshot_to_file(m, in) ==
    IF m.start_time_of_last_recording = None
    THEN Raise(m)
    ELSE LET m1 == Call(m, <<"captureSnapshot", get_snapshot_file_path(m)>>)
         IN  IF in.raises = "captureSnapshot" THEN Raise(m1) ELSE m1

\* __send_email: SMTPException and socket.timeout are caught, others are not.
send_email(m, file_path, in) ==
    LET m1 == Call(m, <<"send", file_path>>)
    IN  IF in.raises = "send"
        THEN Raise([m1 EXCEPT !.sent = "raised"])
        ELSE [m1 EXCEPT !.sent = in.send]

\* __delete_recording
delete_recording(m, file_path, in) ==
    IF args.delete_local_recordings
    THEN LET m1 == Call(m, <<"deleteLocal", file_path>>)
         IN  IF in.raises = "deleteLocal" THEN Raise(m1) ELSE m1
    ELSE m

\* __upload_file: the hand-off of one artifact to delivery
upload_file(m, file_path, in) ==
    LET m1 == Call(m, <<"deliver", file_path>>)
        m2 == IF args.email_configured THEN send_email(m1, file_path, in) ELSE m1
    IN  IF m2.exc THEN m2 ELSE delete_recording(m2, file_path, in)

\* Mutant: the two branches of `if self.__snapshot_only` exchanged.
artifact_exchanged(m) ==
    IF args.snapshot_only THEN get_recording_file_path(m) ELSE get_snapshot_file_path(m)

\* The artifact __write_recording_to_file hands to __upload_file (lines 220-223)
artifact(m) ==
    IF args.snapshot_only THEN get_snapshot_file_path(m) ELSE get_recording_file_path(m)

\* Mutant: the session state cleared in any case, as in a `finally`.
write_recording_to_file_always_clears(m, in) ==
    LET m1 == write_snapshot_to_file(m, in)
        m2 == IF m1.exc THEN m1
              ELSE LET s == Call(m1, <<"stopWriting">>)
                   IN  IF in.raises = "stopWriting" THEN Raise(s)
                       ELSE [s EXCEPT !.output.recording = FALSE]
        m3 == IF m2.exc THEN m2 ELSE upload_file(m2, artifact(m2), in)
    IN  [m3 EXCEPT !.encoding = FALSE, !.start_time_of_last_recording = None]

\* Mutant: line 224 (`self.__encoding = False`) left out.
write_recording_to_file_keeps_encoding(m, in) ==
    LET m1 == write_snapshot_to_file(m, in)
        m2 == IF m1.exc THEN m1
              ELSE LET s == Call(m1, <<"stopWriting">>)
                   IN  IF in.raises = "stopWriting" THEN Raise(s)
                       ELSE [s EXCEPT !.output.recording = FALSE]
        m3 == IF m2.exc THEN m2 ELSE upload_file(m2, artifact(m2), in)
    IN  IF m3.exc THEN m3
        ELSE [m3 EXCEPT !.start_time_of_last_recording = None]

\* __write_recording_to_file: the finalization
write_recording_to_file(m, in) ==
    LET m1 == write_snapshot_to_file(m, in)
        m2 == IF m1.exc THEN m1
              ELSE LET s == Call(m1, <<"stopWriting">>)
                   IN  IF in.raises = "stopWriting" THEN Raise(s)
                       ELSE [s EXCEPT !.output.recording = FALSE]
        m3 == IF m2.exc THEN m2 ELSE upload_file(m2, artifact(m2), in)
    IN  IF m3.exc THEN m3
        ELSE [m3 EXCEPT !.encoding = FALSE, !.start_time_of_last_recording = None]

\* --------------------------------------------------------------- the loop
\* Lines 165-180: the decision of one iteration on the score hist_diff.
\* in.c1 <= in.c2 <= in.c3 are the clock's values at the (at most three)
\* calls of datetime.datetime.now() that the iteration makes, in order.
decide(m, in) ==
    IF /\ in.hist_diff > min_pixel_diff
       /\ ~is_max_recording_length_exceeded(m, in.c1)
       /\ ~m.encoding
    THEN LET m1 == IF ~m.encoding
                   THEN start_recording(
                            [m EXCEPT !.start_time_of_last_recording = in.c2], in)
                   ELSE m
         IN  IF m1.exc THEN [m1 EXCEPT !.branch = "motion"]
             ELSE [m1 EXCEPT !.time_of_last_motion_detection = in.c3,
                             !.branch = "motion"]
    ELSE LET t2 == IF in.hist_diff > min_pixel_diff THEN in.c2 ELSE in.c1
             t3 == IF in.hist_diff > min_pixel_diff THEN in.c3 ELSE in.c2
         IN  IF is_max_recording_length_exceeded(m, t2)
             THEN write_recording_to_file([m EXCEPT !.branch = "max_length"], in)
             ELSE IF is_max_time_since_last_motion_detection_exceeded(m, t3)
                  THEN write_recording_to_file([m EXCEPT !.branch = "idle"], in)
                  ELSE m

\* Lines 159-184: the body of the loop.  The result's frame is the value of
\* previous_frame the next iteration sees: 1 after `previous_frame =
\* current_frame`; when an exception skips the assignment, the frame kept is
\* one iteration older (None stays None).  store_diff_history (line 164)
\* writes only the difference history and its counters, which no decision
\* of the loop reads; "diff" stands for a failure in lines 161-164.
loop_body(m, in) ==
    LET older == IF previous_frame = None THEN None
                 ELSE IF previous_frame < MaxAge THEN previous_frame + 1 ELSE MaxAge
        r == IF in.raises = "capture" THEN Raise(m)
             ELSE IF previous_frame = None THEN m
             ELSE IF in.raises = "diff" THEN Raise(m)
             ELSE decide(m, in)
    IN  [m |-> r,
         frame |-> IF r.exc THEN older ELSE 1,
         scored |-> in.raises \notin {"capture", "diff"} /\ previous_frame # None]

\* The inputs of an iteration: the score of the frame pair, the clock at
\* the three reads, the operation that fails and the outcome of the send.
Input(hist_diff, c1, c2, c3, raises, send) ==
    [hist_diff |-> hist_diff, c1 |-> c1, c2 |-> c2, c3 |-> c3,
     raises |-> raises, send |-> send]

\* The value of last after a step that is no iteration of the loop.
NoIteration(kind) ==
    [kind |-> kind, hist_diff |-> None, c1 |-> 0,
     was |-> [encoding |-> FALSE,
              start_time_of_last_recording |-> None,
              time_of_last_motion_detection |-> None,
              recording |-> FALSE],
     branch |-> "none", calls |-> <<>>, error |-> FALSE, sent |-> "none",
     res |-> "none"]

\* Mutant: a handler that catches OSError only.
except_OSError(raises) == raises \in {"send", "deleteLocal"}

\* `except Exception` (line 182): the exceptions of the loop's operations
\* that the handler catches.  All of them are Exceptions.
except_Exception(raises) == raises \in Raises

\* One iteration of the `while True` loop.  Whatever was raised is caught at
\* line 182 and the loop continues.  r is the iteration's result; last
\* records the iteration: its score, the clock at its first read (c1; the
\* clock at its last read is now), the state it started from (was) and
\* what it did.
Loop(hist_diff, c1, c2, c3, raises, send) ==
    /\ pc = "running"
    /\ \E r \in {loop_body(Machine, Input(hist_diff, c1, c2, c3, raises, send))} :
           /\ encoding' = r.m.encoding
           /\ start_time_of_last_recording' = r.m.start_time_of_last_recording
           /\ time_of_last_motion_detection' = r.m.time_of_last_motion_detection
           /\ output' = r.m.output
           /\ previous_frame' = r.frame
           /\ last' = [kind |-> "tick",
                       hist_diff |-> IF r.scored THEN hist_diff ELSE None,
                       c1 |-> c1,
                       was |-> [encoding |-> encoding,
                                start_time_of_last_recording |->
                                    start_time_of_last_recording,
                                time_of_last_motion_detection |->
                                    time_of_last_motion_detection,
                                recording |-> output.recording],
                       branch |-> r.m.branch,
                       calls |-> r.m.calls,
                       error |-> r.m.exc,
                       sent |-> r.m.sent,
                       res |-> "none"]
           /\ pc' = IF r.m.exc /\ ~except_Exception(raises)
                    THEN "exited" ELSE "running"
    /\ now' = c3
    /\ UNCHANGED <<args, motion>>
    /\ UNCHANGED stats_vars

\* command_line_handler and stop(): SIGINT asks the operator; on 'y' the
\* encoder is stopped and sys.exit(1) raises SystemExit, which `except
\* Exception` does not catch.  An Exception raised by stop_encoder is caught
\* by the loop's handler when the signal arrived inside the try block
\* (in_try), and ends the process otherwise.  last records the operator's
\* answer (res).
command_line_handler(res, stop_fails, in_try) ==
    /\ pc = "running"
    /\ pc' = IF res = "y" /\ ~(stop_fails /\ in_try) THEN "exited" ELSE "running"
    /\ last' = [NoIteration("signal") EXCEPT !.res = res]
    /\ UNCHANGED <<now, args, encoding, start_time_of_last_recording,
                   time_of_last_motion_detection, previous_frame, output,
                   motion>>
    /\ UNCHANGED stats_vars

\* ------------------------------------------------ difference statistics
\* The fields of self that store_diff_history and the methods it calls read
\* and write, with the messages logged by the call (logged).  An entry of
\* the history is the score stored together with the number of the call
\* that stored it (call), which tells equal scores apart.
Statistics ==
    [diff_history |-> diff_history, tick |-> tick, diff_min |-> diff_min,
     diff_max |-> diff_max, diff_average |-> diff_average, logged |-> <<>>]

\* log_at_interval (lines 344-349)
log_at_interval(h, message) ==
    IF h.tick = display_interval
    THEN [h EXCEPT !.logged = Append(@, message), !.tick = 0]
    ELSE [h EXCEPT !.tick = @ + 1]

RECURSIVE SumOf(_)
SumOf(history) ==
    IF history = <<>> THEN 0 ELSE Head(history).diff + SumOf(Tail(history))

\* display_diff_stats (lines 351-364).  The scores are in tenths (9999 is
\* 99990); the average is kept in whole tenths.
display_diff_stats(h) ==
    LET values == {h.diff_history[i].diff : i \in DOMAIN h.diff_history}
        diff_sum == SumOf(h.diff_history)
        iterations == Len(h.diff_history)
        lowest == CHOOSE v \in values \cup {99990} :
                      \A w \in values \cup {99990} : v <= w
        highest == CHOOSE v \in values \cup {0} :
                       \A w \in values \cup {0} : v >= w
        h1 == [h EXCEPT !.diff_min = lowest, !.diff_max = highest,
                        !.diff_average = diff_sum \div iterations]
    IN  log_at_interval(h1, <<"Diff Stats", iterations,
                              h1.diff_average, h1.diff_min, h1.diff_max>>)

\* Mutant: every score appended, a full history included.
store_diff_history_append_only(h, diff) ==
    display_diff_stats([h EXCEPT !.diff_history = Append(@, diff)])

\* store_diff_history (lines 366-380).  On a full history the new list is
\* the new score followed by the entries at positions 1..count-1 (0-based).
store_diff_history(h, diff) ==
    LET stored_h ==
            IF Len(h.diff_history) = diff_history_count
            THEN LET new_diff_history ==
                         <<diff>> \o SubSeq(h.diff_history, 2, diff_history_count)
                 IN  [h EXCEPT !.diff_history = new_diff_history]
            ELSE [h EXCEPT !.diff_history = Append(@, diff)]
    IN  display_diff_stats(stored_h)

\* __init__ (lines 93-132) and the arguments of parse_command_line_arguments
Init ==
    /\ pc = "running"
    /\ now = 0
    /\ args \in [max_recording_length_seconds : CapValues,
                 snapshot_only : BOOLEAN,
                 delete_local_recordings : BOOLEAN,
                 email_configured : BOOLEAN]
    /\ encoding = FALSE
    /\ start_time_of_last_recording = None
    /\ time_of_last_motion_detection = None
    /\ previous_frame = None
    /\ output = [fileoutput |-> <<>>, recording |-> FALSE]
    /\ last = NoIteration("init")
    /\ motion = TRUE
    /\ diff_history = <<>>
    /\ tick = 0
    /\ diff_min = 99990
    /\ diff_max = 0
    /\ diff_average = 0
    /\ stored = 0
    /\ reports = <<>>

\* Time passes: while capture_buffer waits for a frame, while a mail is sent.
Wait ==
    /\ pc = "running"
    /\ now < MaxTime
    /\ now' = now + 1
    /\ last' = NoIteration("wait")
    /\ UNCHANGED <<pc, args, encoding, start_time_of_last_recording,
                   time_of_last_motion_detection, previous_frame, output,
                   motion>>
    /\ UNCHANGED stats_vars

\* The operations the iteration calls when none fails: the ones that can fail.
Called(hist_diff, c1, c2, c3) ==
    LET cs == loop_body(Machine, Input(hist_diff, c1, c2, c3, "none", "ok")).m.calls
    IN  {cs[i][1] : i \in DOMAIN cs}

\* An iteration that compares no frames: the capture fails, there is no
\* previous frame yet, or the difference fails.  It reads neither the score
\* nor the clock.
TickNoScore ==
    \E raises \in IF previous_frame = None THEN {"none", "capture"}
                  ELSE {"capture", "diff"} :
        Loop(0, now, now, now, raises, "ok")

\* An iteration that compares two frames, over every input it consumes.
TickScore ==
    /\ previous_frame # None
    /\ \E hist_diff \in Scores :
         \E d1 \in 0 .. MaxDrift :
           \E d2 \in 0 .. MaxDrift - d1 :
             /\ now + d1 + d2 <= MaxTime
             /\ LET c2 == now + d1
                    c3 == now + d1 + d2
                    called == Called(hist_diff, now, c2, c3)
                IN  \E raises \in {"none"} \cup (called \cap Raises) :
                      \E send \in IF "send" \in called
                                      /\ raises \in {"none", "deleteLocal"}
                                   THEN SendOutcomes ELSE {"ok"} :
                          Loop(hist_diff, now, c2, c3, raises, send)

Tick == TickNoScore \/ TickScore

Signal ==
    \E res \in {"y", "n"}, stop_fails \in BOOLEAN, in_try \in BOOLEAN :
        command_line_handler(res, stop_fails, in_try)

Next == Tick \/ Wait \/ Signal

Spec == Init /\ [][Next]_vars

\* ------------------------------------------- the loop once motion ceased
\* The scene in front of the camera.  While motion is possible the loop
\* takes any iteration; once motion has ceased every frame pair scores at
\* or below the threshold.
MotionTick == motion /\ Tick

MotionCeases ==
    /\ pc = "running"
    /\ motion
    /\ motion' = FALSE
    /\ last' = NoIteration("ceased")
    /\ UNCHANGED <<pc, now, args, encoding, start_time_of_last_recording,
                   time_of_last_motion_detection, previous_frame, output>>
    /\ UNCHANGED stats_vars

\* An iteration after motion ceased in which no operation fails.
QuietTick ==
    /\ ~motion
    /\ \/ /\ previous_frame = None
          /\ Loop(0, now, now, now, "none", "ok")
       \/ /\ previous_frame # None
          /\ \E hist_diff \in {s \in Scores : s <= min_pixel_diff} :
               \E d1 \in 0..MaxDrift :
                 \E d2 \in 0..MaxDrift - d1 :
                    /\ now + d1 + d2 <= MaxTime
                    /\ Loop(hist_diff, now, now + d1, now + d1 + d2, "none", "ok")

\* An iteration after motion ceased in which the capture or the differencing
\* of the frames fails.
QuietCaptureFailure ==
    /\ ~motion
    /\ \E raises \in IF previous_frame = None THEN {"capture"}
                      ELSE {"capture", "diff"} :
           Loop(0, now, now, now, raises, "ok")

NextLive == MotionTick \/ MotionCeases \/ QuietTick \/ QuietCaptureFailure \/ Wait

\* The `while True` loop keeps iterating and the clock keeps advancing:
\* iterations without a failure keep occurring.
SpecLive ==
    /\ Init
    /\ [][NextLive]_vars
    /\ WF_vars(QuietTick)
    /\ WF_vars(Wait)

\* ------------------------------------- the difference statistics alone
\* The call self.store_diff_history(hist_diff) of line 164, which every
\* iteration that scores a frame pair makes before it decides.  It reads
\* and writes the statistics only, and the loop never reads them, so the
\* sequence of these calls is followed on its own, from the state __init__
\* leaves, with the loop's variables at rest.
StoreDiff(hist_diff) ==
    /\ pc = "running"
    /\ stored < MaxStored
    /\ \E h \in {store_diff_history(Statistics,
                                     [diff |-> hist_diff, call |-> stored + 1])} :
           /\ diff_history' = h.diff_history
           /\ tick' = h.tick
           /\ diff_min' = h.diff_min
           /\ diff_max' = h.diff_max
           /\ diff_average' = h.diff_average
           /\ reports' = IF h.logged = <<>> THEN reports
                         ELSE Append(reports, stored + 1)
    /\ stored' = stored + 1
    /\ UNCHANGED loop_vars

InitStats ==
    /\ Init
    /\ args = [max_recording_length_seconds |-> 0, snapshot_only |-> FALSE,
               delete_local_recordings |-> FALSE, email_configured |-> FALSE]

NextStats == \E hist_diff \in Scores : StoreDiff(hist_diff)

SpecStats == InitStats /\ [][NextStats]_vars

\* ===================================================================
\* Vocabulary of the properties.  A state with last.kind = "tick" is the
\* state right after an iteration of the loop: now is the clock at its last
\* read, last.c1 the clock at its first read, last.was the state before it.
Ticked == last.kind = "tick"

\* The iteration compared two frames and decided on the score last.hist_diff.
Scored == Ticked /\ last.hist_diff # None

\* The positions in the iteration's calls of the calls of one operation.
CallsOf(name) == {i \in DOMAIN last.calls : last.calls[i][1] = name}

Issued(name) == CallsOf(name) # {}

\* The iteration ended with an exception raised by its last call.
FailedAt(name) ==
    /\ last.error
    /\ last.calls # <<>>
    /\ last.calls[Len(last.calls)][1] = name

\* Elapsed time since the session start (before the iteration) has reached
\* the cap at clock value t.
CapReached(t) ==
    /\ args.max_recording_length_seconds > 0
    /\ last.was.start_time_of_last_recording # None
    /\ t - last.was.start_time_of_last_recording >= args.max_recording_length_seconds

\* More than 5.0 seconds have passed at clock value t since the last-motion
\* timestamp (before the iteration).
IdleGapExceeded(t) ==
    /\ last.was.time_of_last_motion_detection # None
    /\ t - last.was.time_of_last_motion_detection > 5

\* The session state is cleared: the machine is Idle with no start timestamp.
Cleared == ~encoding /\ start_time_of_last_recording = None

\* -------------------------------------------------------------------
\* C1: at most one recording session is active.  The sink writes only while
\* the session flag is set, and then to the file named by the session start
\* timestamp; an iteration that begins with a session active (flag set or
\* sink writing) issues no startWriting and leaves the start timestamp as it
\* was, unless it finalizes the session (stopWriting issued, state cleared).
C1_AtMostOneSession ==
    /\ output.recording =>
          /\ encoding
          /\ start_time_of_last_recording # None
          /\ output.fileoutput = <<"h264", start_time_of_last_recording>>
    /\ (Ticked /\ (last.was.encoding \/ last.was.recording)) =>
          /\ ~Issued("startWriting")
          /\ \/ start_time_of_last_recording = last.was.start_time_of_last_recording
             \/ Issued("stopWriting") /\ Cleared /\ ~output.recording

\* C1 witness: a score above the threshold arrived while Recording and the
\* session is still the same one.
C1_Witness ==
    /\ Scored /\ last.was.encoding /\ last.was.recording
    /\ last.hist_diff > min_pixel_diff
    /\ encoding /\ output.recording
    /\ start_time_of_last_recording = last.was.start_time_of_last_recording

\* C2 (as claimed): while Recording, an iteration whose score is above the
\* threshold and whose elapsed time has not reached the cap refreshes the
\* last-motion timestamp to the current time and stays Recording.
C2_RefreshWhileRecording ==
    (/\ Scored /\ last.was.encoding
     /\ last.hist_diff > min_pixel_diff
     /\ ~CapReached(now)
     /\ ~last.error)
    => /\ encoding
       /\ time_of_last_motion_detection \in last.c1 .. now

\* C3 (as claimed): while Recording, a score at or below the threshold with
\* the idle gap exceeded finalizes the session with exactly one delivery
\* call, and a score above the threshold never takes the idle-timeout stop.
C3_NaturalStop ==
    (Scored /\ last.was.encoding) =>
       /\ (/\ last.hist_diff <= min_pixel_diff
           /\ IdleGapExceeded(last.c1)
           /\ ~last.error)
          => Cleared /\ Cardinality(CallsOf("deliver")) = 1
       /\ last.hist_diff > min_pixel_diff => last.branch # "idle"

\* C4: with a cap > 0, an iteration that begins Recording with the elapsed
\* time since session start at or over the cap takes the forced-stop branch
\* whatever its score and whether or not the idle gap is exceeded too, and
\* finalizes the session unless one of its operations fails; with cap 0 no
\* iteration takes the forced-stop branch.
C4_ForcedStop ==
    Scored =>
       /\ (last.was.encoding /\ CapReached(last.c1)) =>
             /\ last.branch = "max_length"
             /\ Issued("captureSnapshot")
             /\ ~last.error => Issued("stopWriting") /\ Cleared
       /\ args.max_recording_length_seconds = 0 => last.branch # "max_length"

\* C4 witness: a forced stop on a score above the threshold, with the idle
\* gap exceeded as well.
C4_Witness ==
    /\ Scored /\ last.was.encoding
    /\ CapReached(last.c1) /\ IdleGapExceeded(last.c1)
    /\ last.hist_diff > min_pixel_diff
    /\ last.branch = "max_length"
    /\ Cleared

\* C5 (as claimed): from Idle an iteration starts a session iff its score is
\* above the threshold: then both timestamps are set to the current time,
\* startWriting is called once, on the session's video path, and the machine
\* is Recording; otherwise it stays Idle and issues no call.
C5_StartIffAbove ==
    (Scored /\ ~last.was.encoding /\ ~last.error) =>
       IF last.hist_diff > min_pixel_diff
       THEN /\ encoding
            /\ start_time_of_last_recording \in last.c1 .. now
            /\ time_of_last_motion_detection \in last.c1 .. now
            /\ last.calls = << <<"startWriting", <<"h264", start_time_of_last_recording>>>> >>
       ELSE /\ ~encoding
            /\ last.calls = <<>>

\* C6: while Recording, an iteration with a score at or below the threshold,
\* at most 5 seconds since the last-motion timestamp and the cap not reached
\* (both at its last clock read) changes nothing and issues no call.
C6_SilentContinue ==
    (/\ Scored /\ last.was.encoding
     /\ last.hist_diff <= min_pixel_diff
     /\ ~IdleGapExceeded(now)
     /\ ~CapReached(now))
    => /\ last.calls = <<>>
       /\ ~last.error
       /\ encoding
       /\ start_time_of_last_recording = last.was.start_time_of_last_recording
       /\ time_of_last_motion_detection = last.was.time_of_last_motion_detection
       /\ output.recording = last.was.recording

\* C6 witness: exactly 5 seconds after the last motion, a score at the
\* threshold, and the session goes on.
C6_Witness ==
    /\ Scored /\ last.was.encoding
    /\ last.hist_diff = min_pixel_diff
    /\ last.c1 - last.was.time_of_last_motion_detection = 5
    /\ now = last.c1
    /\ encoding
    /\ last.calls = <<>>

\* C7: no failure inside an iteration ends the loop: after an iteration, also
\* a failed one, the process is running and can take its next iteration; the
\* process is exited only after the operator's signal.
C7_FailuresAbsorbed ==
    /\ Ticked => pc = "running"
    /\ (Ticked /\ last.error) => ENABLED Tick
    /\ pc = "exited" => last.kind = "signal"

\* C7 witness: an iteration failed in its delivery or deletion and the loop
\* is running.
C7_Witness ==
    /\ Ticked /\ last.error /\ Issued("deliver")
    /\ pc = "running"

\* C8 (as claimed): after a failed delivery attempt, of any kind, the
\* finalization completes: the session state is cleared and the machine is
\* Idle, so that no later iteration delivers the session again.
C8_NoRetry ==
    (/\ Ticked
     /\ last.sent \in {"failed", "raised"}
     /\ ~FailedAt("deleteLocal"))
    => Cleared

\* C9 (as claimed): with local deletion enabled, every send attempt of an
\* iteration is followed by the deletion request for the same file.
C9_DeleteAfterAttempt ==
    (Ticked /\ args.delete_local_recordings) =>
       \A i \in CallsOf("send") :
          /\ i < Len(last.calls)
          /\ last.calls[i + 1] = <<"deleteLocal", last.calls[i][2]>>

\* C10: a finalization hands at most one artifact to delivery, and exactly one
\* when its snapshot and stopWriting succeed: the snapshot of the session when
\* snapshot-only is configured, the video of the session otherwise; nothing
\* else is handed over, sent or deleted.
C10_OneArtifact ==
    (Ticked /\ last.branch \in {"max_length", "idle"}) =>
       LET t == last.was.start_time_of_last_recording
           want == IF args.snapshot_only THEN <<"jpeg", t>> ELSE <<"h264", t>>
       IN  /\ Cardinality(CallsOf("deliver")) <= 1
           /\ (~FailedAt("captureSnapshot") /\ ~FailedAt("stopWriting"))
                 => Cardinality(CallsOf("deliver")) = 1
           /\ \A i \in CallsOf("deliver") \cup CallsOf("send") \cup CallsOf("deleteLocal") :
                 last.calls[i][2] = want

\* C10 witness: a snapshot-only finalization delivered, sent and deleted the
\* snapshot.
C10_Witness ==
    /\ Ticked /\ args.snapshot_only /\ ~last.error
    /\ LET p == <<"jpeg", last.was.start_time_of_last_recording>>
       IN  /\ \E i \in CallsOf("deliver") : last.calls[i][2] = p
           /\ \E i \in CallsOf("send") : last.calls[i][2] = p
           /\ \E i \in CallsOf("deleteLocal") : last.calls[i][2] = p

\* The names of the calls of the iteration, in the order they were issued.
CallNames == [i \in DOMAIN last.calls |-> last.calls[i][1]]

\* The iteration was a finalization: it entered __write_recording_to_file.
Finalizing == Ticked /\ last.branch \in {"max_length", "idle"}

\* The iteration cleared the session state it started with.
ClearedNow ==
    /\ last.was.start_time_of_last_recording # None
    /\ Cleared

FailedBeforeScore == Ticked /\ last.error /\ ~Scored /\ last.calls = <<>>

\* C14 (as claimed): after an iteration that failed in capture or
\* differencing no previous frame is kept, so that the next frame captured
\* is not compared against any frame from before the failure.
C14_FrameDiscarded ==
    FailedBeforeScore => previous_frame = None

\* C15 (as claimed): every deletion request of an iteration is preceded, in
\* the same iteration, by a send attempt for the same file.
C15_DeleteOnlyAfterSend ==
    Ticked =>
       \A i \in CallsOf("deleteLocal") :
          \E j \in CallsOf("send") :
             /\ j < i
             /\ last.calls[j][2] = last.calls[i][2]

\* C16 (as claimed): the session-active flag is set exactly when the session
\* start timestamp is set, and a finalization happens only in an iteration
\* that started with an active session.
C16_FlagIffStartTime ==
    /\ encoding <=> start_time_of_last_recording # None
    /\ Finalizing => last.was.encoding

\* The operator confirmed the stop request of the last signal.
StopConfirmed == last.kind = "signal" /\ last.res = "y"

\* C18 (as claimed): once the operator has confirmed a stop request the
\* process is exited and no further iteration can be taken, whenever the
\* signal arrived and whether or not stopping the encoder succeeded.
C18_StopsOnConfirm ==
    StopConfirmed => pc = "exited" /\ ~ENABLED Tick

\* The calls whose scores the history holds, in the order of its entries.
HeldCalls == [i \in DOMAIN diff_history |-> diff_history[i].call]

\* C12 (as claimed): after n calls the history holds the scores of the last
\* min(n, capacity) calls, in the order they were inserted.
C12_FifoWindow ==
    LET n == stored
        k == IF n < diff_history_count THEN n ELSE diff_history_count
    IN  HeldCalls = [i \in 1..k |-> n - k + i]

\* C13: the history never holds more entries than its capacity, and after
\* capacity+1 inserts into the empty history the score inserted first is
\* absent and the score inserted last is present.
C13_BoundedHistory ==
    /\ Len(diff_history) <= diff_history_count
    /\ stored = diff_history_count + 1 =>
          /\ \A i \in DOMAIN HeldCalls : HeldCalls[i] # 1
          /\ \E i \in DOMAIN HeldCalls : HeldCalls[i] = stored

\* C13 witness: capacity+1 scores were inserted and the history is full.
C13_Witness ==
    /\ stored = diff_history_count + 1
    /\ Len(diff_history) = diff_history_count

\* C19 (as claimed): the m-th report of the statistics is logged by call
\* number m * display_interval, and no other call logs one.
C19_ReportEveryK ==
    reports = [m \in 1..(stored \div display_interval) |-> m * display_interval]

\* C17: once motion has ceased, with the clock advancing, iterations
\* occurring and no sink, delivery or deletion operation failing, an active
\* session (one whose idle timeout lies within the clock's range) is
\* eventually finalized, and the machine is Idle from then on.
C17_SessionEnds ==
    (/\ ~motion
     /\ encoding
     /\ MaxTime - time_of_last_motion_detection > 5)
    ~> [](~encoding /\ start_time_of_last_recording = None /\ ~output.recording)

\* C17 witness: after motion ceased, an iteration finalized the active
\* session by the idle timeout and the machine is Idle.
C17_Witness ==
    /\ ~motion
    /\ Finalizing /\ last.branch = "idle" /\ last.was.encoding
    /\ Cleared

====
